---------------------------- MODULE Spec2Model ----------------------------
(***************************************************************************)
(* A model of nvsmi.py, the wrapper around nvidia-smi.                     *)
(*                                                                         *)
(* Text is modelled as sequences of one-character strings, so that         *)
(* line.split(", "), float(...) and int(...) are computed character by     *)
(* character.  A Python float is modelled as an exact rational n/d, or     *)
(* as NaN; rounding, infinities and exponents are outside the model.       *)
(***************************************************************************)
EXTENDS Integers, Sequences, FiniteSets, TLC

(***************************************************************************)
(* Bounds of the model.                                                    *)
(***************************************************************************)
\* the largest number of lines nvidia-smi prints for the GPU query
MaxGpus == 2
\* the largest number of lines nvidia-smi prints for the process query
MaxProcs == 1
\* the largest --limit tried
MaxLimit == 3

(***************************************************************************)
(* Characters and strings.                                                 *)
(***************************************************************************)
DigitVal ==
    [c \in {"0", "1", "2", "3", "4", "5", "6", "7", "8", "9"} |->
        CASE c = "0" -> 0 [] c = "1" -> 1 [] c = "2" -> 2 [] c = "3" -> 3
          [] c = "4" -> 4 [] c = "5" -> 5 [] c = "6" -> 6 [] c = "7" -> 7
          [] c = "8" -> 8 [] c = "9" -> 9]

IsDigit(c) == c \in DOMAIN DigitVal

\* the order of the characters used, as Python orders code points
Ord(c) ==
    CASE c = " " -> 32 [] c = "+" -> 43 [] c = "," -> 44 [] c = "-" -> 45
      [] c = "." -> 46 [] c = "/" -> 47
      [] IsDigit(c) -> 48 + DigitVal[c]
      [] c = "A" -> 65 [] c = "B" -> 66 [] c = "C" -> 67 [] c = "N" -> 78
      [] c = "T" -> 84 [] c = "p" -> 112 [] c = "x" -> 120
      [] OTHER -> 127

\* str.__lt__: lexicographic order on code points
RECURSIVE StrLt(_, _)
StrLt(s, t) ==
    IF t = <<>> THEN FALSE
    ELSE IF s = <<>> THEN TRUE
    ELSE IF Ord(Head(s)) # Ord(Head(t)) THEN Ord(Head(s)) < Ord(Head(t))
    ELSE StrLt(Tail(s), Tail(t))

\* str.strip(): leading and trailing blanks removed
RECURSIVE LStrip(_)
LStrip(s) == IF s # <<>> /\ Head(s) = " " THEN LStrip(Tail(s)) ELSE s

RECURSIVE RStrip(_)
RStrip(s) ==
    IF s # <<>> /\ s[Len(s)] = " " THEN RStrip(SubSeq(s, 1, Len(s) - 1)) ELSE s

Strip(s) == RStrip(LStrip(s))

\* str.find(", ") + 1: where the first ", " of s starts, 0 when there is none
FirstSep(s) ==
    LET hits == {i \in 1..(Len(s) - 1) : s[i] = "," /\ s[i + 1] = " "}
    IN  IF hits = {} THEN 0 ELSE CHOOSE k \in hits : \A j \in hits : k <= j

\* line.split(", ")
RECURSIVE Split(_)
RECURSIVE SplitAt(_, _)
Split(s) == SplitAt(s, FirstSep(s))

SplitAt(s, i) ==
    IF i = 0 THEN <<s>>
    ELSE <<SubSeq(s, 1, i - 1)>> \o Split(SubSeq(s, i + 2, Len(s)))

(***************************************************************************)
(* Numbers.                                                                *)
(***************************************************************************)
RECURSIVE GCD(_, _)
GCD(a, b) == IF b = 0 THEN a ELSE GCD(b, a % b)

Abs(x) == IF x < 0 THEN -x ELSE x

\* a float that is a number: the rational n/d in lowest terms, d > 0
Num(n, d) ==
    LET g == GCD(Abs(n), d)
    IN  [nan |-> FALSE, n |-> n \div g, d |-> d \div g]

\* float("nan")
NaN == [nan |-> TRUE, n |-> 0, d |-> 1]

IntF(i) == Num(i, 1)

\* float.__le__ and float.__ge__ and float.__lt__: false when either side is NaN
FLe(a, b) == ~a.nan /\ ~b.nan /\ a.n * b.d <= b.n * a.d
FGe(a, b) == ~a.nan /\ ~b.nan /\ a.n * b.d >= b.n * a.d
FLt(a, b) == ~a.nan /\ ~b.nan /\ a.n * b.d < b.n * a.d

\* float.__mul__
FMul(a, b) == IF a.nan \/ b.nan THEN NaN ELSE Num(a.n * b.n, a.d * b.d)

\* float.__truediv__: a zero divisor raises whatever the dividend is
FDiv(a, b) ==
    IF ~b.nan /\ b.n = 0 THEN [err |-> "ZeroDivisionError", val |-> NaN]
    ELSE IF a.nan \/ b.nan THEN [err |-> "none", val |-> NaN]
    ELSE [err |-> "none",
          val |-> IF b.n < 0 THEN Num(-(a.n * b.d), a.d * (-b.n))
                  ELSE Num(a.n * b.d, a.d * b.n)]

RECURSIVE DigitsToNat(_)
DigitsToNat(s) ==
    IF s = <<>> THEN 0
    ELSE DigitsToNat(SubSeq(s, 1, Len(s) - 1)) * 10 + DigitVal[s[Len(s)]]

RECURSIVE Pow10(_)
Pow10(k) == IF k = 0 THEN 1 ELSE 10 * Pow10(k - 1)

AllDigits(s) == \A i \in 1..Len(s) : IsDigit(s[i])

Sign(t) == IF t # <<>> /\ t[1] = "-" THEN -1 ELSE 1

Unsigned(t) == IF t # <<>> /\ t[1] \in {"-", "+"} THEN Tail(t) ELSE t

\* the number of digits of u that follow a point
FracLen(u) == Cardinality({i \in 1..Len(u) : \E j \in 1..(i - 1) : u[j] = "."})

\* a decimal literal without its sign: digits with at most one point among
\* them, and at least one digit.  The other texts float() accepts (an
\* exponent, "inf", "nan", underscores) are not among the inputs tried.
ParseUnsigned(sgn, u) ==
    IF /\ \A i \in 1..Len(u) : IsDigit(u[i]) \/ u[i] = "."
       /\ Cardinality({i \in 1..Len(u) : u[i] = "."}) <= 1
       /\ \E i \in 1..Len(u) : IsDigit(u[i])
    THEN [err |-> "none",
          val |-> Num(sgn * DigitsToNat(SelectSeq(u, IsDigit)), Pow10(FracLen(u)))]
    ELSE [err |-> "ValueError", val |-> NaN]

ParseSigned(t) == ParseUnsigned(Sign(t), Unsigned(t))

\* float(text): blanks stripped, an optional sign, a decimal literal
ParseFloat(value) == ParseSigned(Strip(value))

IntSigned(t) ==
    IF Unsigned(t) # <<>> /\ AllDigits(Unsigned(t))
    THEN [err |-> "none", val |-> Sign(t) * DigitsToNat(Unsigned(t))]
    ELSE [err |-> "ValueError", val |-> 0]

\* int(text): blanks stripped, an optional sign, digits only
ParseInt(value) == IntSigned(Strip(value))

\* the except ValueError branch
NanOnError(r) == IF r.err = "ValueError" THEN NaN ELSE r.val

to_float_or_inf(value) == NanOnError(ParseFloat(value))

(***************************************************************************)
(* Optional arguments: None, or a value.                                   *)
(***************************************************************************)
None(dflt) == [some |-> FALSE, v |-> dflt]
Some(x) == [some |-> TRUE, v |-> x]

\* x in seq, for a list or a tuple
In(x, seq) == \E i \in 1..Len(seq) : seq[i] = x

(***************************************************************************)
(* GPU records and the GPU line parser.                                    *)
(***************************************************************************)
NoGPU ==
    [id |-> <<>>, uuid |-> <<>>, gpu_util |-> NaN, mem_util |-> NaN,
     mem_total |-> NaN, mem_used |-> NaN, mem_free |-> NaN, driver |-> <<>>,
     name |-> <<>>, serial |-> <<>>, display_mode |-> <<>>,
     display_active |-> <<>>, temperature |-> NaN]

\* GPU.__init__: mem_util is float(mem_used) / float(mem_total) * 100
GPU(id, uuid, gpu_util, mem_total, mem_used, mem_free, driver, gpu_name, serial, display_mode, display_active, temperature) ==
    LET Made(q) ==
            IF q.err # "none" THEN [err |-> q.err, val |-> NoGPU]
            ELSE [err |-> "none",
                  val |-> [id |-> id, uuid |-> uuid, gpu_util |-> gpu_util,
                           mem_util |-> FMul(q.val, IntF(100)),
                           mem_total |-> mem_total, mem_used |-> mem_used,
                           mem_free |-> mem_free, driver |-> driver,
                           name |-> gpu_name, serial |-> serial,
                           display_mode |-> display_mode,
                           display_active |-> display_active,
                           temperature |-> temperature]]
    IN  Made(FDiv(mem_used, mem_total))

\* values[0] .. values[11] are read; a missing one raises IndexError, and
\* values past the twelfth are never looked at
GpuOfValues(values) ==
    IF Len(values) < 12 THEN [err |-> "IndexError", val |-> NoGPU]
    ELSE GPU(values[1], values[2],
             to_float_or_inf(values[3]), to_float_or_inf(values[4]),
             to_float_or_inf(values[5]), to_float_or_inf(values[6]),
             values[7], values[8], values[9],
             values[11], values[10],
             to_float_or_inf(values[12]))

get_gpu(line) == GpuOfValues(Split(line))

\* the index of the first element of a sequence of results that is an error,
\* 0 when there is none
FirstError(rs) ==
    LET bad == {i \in 1..Len(rs) : rs[i].err # "none"}
    IN  IF bad = {} THEN 0 ELSE CHOOSE i \in bad : \A j \in bad : i <= j

NonBlank(l) == Strip(l) # <<>>

\* a comprehension consumed to its end: the first element that raised
\* raises, else the list of the values
Collect(rs) ==
    IF FirstError(rs) # 0 THEN [err |-> rs[FirstError(rs)].err, val |-> <<>>]
    ELSE [err |-> "none", val |-> [i \in 1..Len(rs) |-> rs[i].val]]

\* get_gpu(line) for line in lines
GpusOfLines(lines) == [i \in 1..Len(lines) |-> get_gpu(lines[i])]

\* get_gpus() consumed to its end: out is what the nvidia-smi call gave,
\* [ok, lines]; the first line that fails to parse raises
get_gpus(out) ==
    IF ~out.ok THEN [err |-> "CalledProcessError", val |-> <<>>]
    ELSE Collect(GpusOfLines(SelectSeq(out.lines, NonBlank)))

(***************************************************************************)
(* Process records and the process line parser.                            *)
(***************************************************************************)
\* gpu_id is the map's value, a string, or the integer -1
IdStr(s) == [tag |-> "str", s |-> s, i |-> 0]
IdInt(i) == [tag |-> "int", s |-> <<>>, i |-> i]

NoProc ==
    [pid |-> 0, process_name |-> <<>>, gpu_id |-> IdInt(0), gpu_uuid |-> <<>>,
     gpu_name |-> <<>>, used_memory |-> NaN]

GPUProcess(pid, process_name, gpu_id, gpu_uuid, gpu_name, used_memory) ==
    [pid |-> pid, process_name |-> process_name, gpu_id |-> gpu_id,
     gpu_uuid |-> gpu_uuid, gpu_name |-> gpu_name, used_memory |-> used_memory]

\* dict.get(key, default)
DictGet(map, key, default) ==
    IF key \in DOMAIN map THEN IdStr(map[key]) ELSE default

\* get_gpu_proc with gpu_uuid_to_id_map[gpu_uuid] in place of .get(gpu_uuid, -1)
ProcOfValues_Subscript(pid, values, gpu_uuid_to_id_map) ==
    IF pid.err # "none" THEN [err |-> pid.err, val |-> NoProc]
    ELSE IF Len(values) < 5 THEN [err |-> "IndexError", val |-> NoProc]
    ELSE IF values[3] \notin DOMAIN gpu_uuid_to_id_map
    THEN [err |-> "KeyError", val |-> NoProc]
    ELSE [err |-> "none",
          val |-> GPUProcess(pid.val, values[2],
                             IdStr(gpu_uuid_to_id_map[values[3]]),
                             values[3], values[4],
                             to_float_or_inf(values[5]))]

\* pid is the outcome of int(values[0])
ProcOfValues(pid, values, gpu_uuid_to_id_map) ==
    IF pid.err # "none" THEN [err |-> pid.err, val |-> NoProc]
    ELSE IF Len(values) < 5 THEN [err |-> "IndexError", val |-> NoProc]
    ELSE [err |-> "none",
          val |-> GPUProcess(pid.val, values[2],
                             DictGet(gpu_uuid_to_id_map, values[3], IdInt(-1)),
                             values[3], values[4],
                             to_float_or_inf(values[5]))]

ProcOfLine(values, gpu_uuid_to_id_map) ==
    ProcOfValues(ParseInt(values[1]), values, gpu_uuid_to_id_map)

get_gpu_proc(line, gpu_uuid_to_id_map) ==
    ProcOfLine(Split(line), gpu_uuid_to_id_map)

\* {gpu.uuid: gpu.id for gpu in gpus}: a later record overwrites an earlier
\* one with the same uuid
DictOf(gpus) ==
    [u \in {gpus[i].uuid : i \in 1..Len(gpus)} |->
        LET last == CHOOSE i \in 1..Len(gpus) :
                        /\ gpus[i].uuid = u
                        /\ \A j \in 1..Len(gpus) : gpus[j].uuid = u => j <= i
        IN  gpus[last].id]

\* _populate_gpu_uuid_to_id_map with the exception swallowed and an empty
\* map returned
populate_Swallowed(out) ==
    LET Handled(r) ==
            IF r.err # "none" THEN [err |-> "none", val |-> DictOf(<<>>)]
            ELSE [err |-> "none", val |-> DictOf(r.val)]
    IN  Handled(get_gpus(out))

\* the exception raised by get_gpus() is printed about and raised again
_populate_gpu_uuid_to_id_map(out) ==
    LET Handled(r) ==
            IF r.err # "none" THEN [err |-> r.err, val |-> <<>>]
            ELSE [err |-> "none", val |-> DictOf(r.val)]
    IN  Handled(get_gpus(out))

\* the list comprehension of get_gpu_processes
ProcsOfLines(ls, map) == [i \in 1..Len(ls) |-> get_gpu_proc(ls[i], map)]

ParseProcs(lines, map) == Collect(ProcsOfLines(SelectSeq(lines, NonBlank), map))

(***************************************************************************)
(* The query pipeline.                                                     *)
(***************************************************************************)
\* is_gpu_available with the uuid looked up in exclude_ids
is_gpu_available_WrongList(gpu, gpu_util_max, mem_util_max, mem_free_min, exclude_ids, exclude_uuids) ==
    /\ FLe(gpu.gpu_util, gpu_util_max)
    /\ FLe(gpu.mem_util, mem_util_max)
    /\ FGe(gpu.mem_free, mem_free_min)
    /\ ~In(gpu.id, exclude_ids)
    /\ ~In(gpu.uuid, exclude_ids)

\* is_gpu_available with the comparison of mem_free turned round
is_gpu_available_FreeBelow(gpu, gpu_util_max, mem_util_max, mem_free_min, exclude_ids, exclude_uuids) ==
    /\ FLe(gpu.gpu_util, gpu_util_max)
    /\ FLe(gpu.mem_util, mem_util_max)
    /\ FLe(gpu.mem_free, mem_free_min)
    /\ ~In(gpu.id, exclude_ids)
    /\ ~In(gpu.uuid, exclude_uuids)

is_gpu_available(gpu, gpu_util_max, mem_util_max, mem_free_min, exclude_ids, exclude_uuids) ==
    /\ FLe(gpu.gpu_util, gpu_util_max)
    /\ FLe(gpu.mem_util, mem_util_max)
    /\ FGe(gpu.mem_free, mem_free_min)
    /\ ~In(gpu.id, exclude_ids)
    /\ ~In(gpu.uuid, exclude_uuids)

\* itertools.compress(data, selectors)
RECURSIVE compress(_, _)
compress(data, selectors) ==
    IF data = <<>> \/ selectors = <<>> THEN <<>>
    ELSE (IF Head(selectors) THEN <<Head(data)>> ELSE <<>>)
         \o compress(Tail(data), Tail(selectors))

\* the defaults of the keyword arguments of get_available_gpus
LibGpuUtilMax == IntF(1)
LibMemUtilMax == IntF(1)
LibMemFreeMin == IntF(0)

\* an argument left out takes its default
ArgOr(opt, dflt) == IF opt.some THEN opt.v ELSE dflt

\* exclude_ids or tuple(): None and the empty list both give ()
OrTuple(opt) == IF opt.some /\ opt.v # <<>> THEN opt.v ELSE <<>>

\* the selectors and the compress of get_available_gpus; r is the outcome
\* of list(get_gpus())
Selected(r, gpu_util_max, mem_util_max, mem_free_min, exclude_ids, exclude_uuids) ==
    IF r.err # "none" THEN [err |-> r.err, gpus |-> <<>>, val |-> <<>>]
    ELSE [err |-> "none", gpus |-> r.val,
          val |-> compress(r.val,
                           [i \in 1..Len(r.val) |->
                               is_gpu_available(r.val[i], gpu_util_max,
                                                mem_util_max, mem_free_min,
                                                exclude_ids, exclude_uuids)])]

\* kw holds the keyword arguments given; out is what nvidia-smi gave
get_available_gpus(kw, out) ==
    Selected(get_gpus(out),
             ArgOr(kw.gpu_util_max, LibGpuUtilMax),
             ArgOr(kw.mem_util_max, LibMemUtilMax),
             ArgOr(kw.mem_free_min, LibMemFreeMin),
             OrTuple(kw.exclude_ids), OrTuple(kw.exclude_uuids))

\* operator.attrgetter(args.sort) and the < of the keys it gives: ids are
\* strings and compare as strings, the utilisations are floats
KeyLt(sort, a, b) ==
    CASE sort = "id"       -> StrLt(a.id, b.id)
      [] sort = "gpu_util" -> FLt(a.gpu_util, b.gpu_util)
      [] sort = "mem_util" -> FLt(a.mem_util, b.mem_util)

\* x goes before the first element that is greater than it
RECURSIVE Insert(_, _, _)
Insert(sort, x, s) ==
    IF s = <<>> THEN <<x>>
    ELSE IF KeyLt(sort, x, Head(s)) THEN <<x>> \o s
    ELSE <<Head(s)>> \o Insert(sort, x, Tail(s))

\* list.sort(key=...): a stable insertion sort, as it is for short lists
RECURSIVE SortBy(_, _)
SortBy(sort, s) ==
    IF s = <<>> THEN <<>>
    ELSE Insert(sort, s[Len(s)], SortBy(sort, SubSeq(s, 1, Len(s) - 1)))

\* take with islice(iterable, n + 1)
take_OneMore(n, iterable) ==
    IF n < 0 THEN [err |-> "ValueError", val |-> <<>>]
    ELSE [err |-> "none",
          val |-> SubSeq(iterable, 1,
                         IF n + 1 < Len(iterable) THEN n + 1 ELSE Len(iterable))]

\* itertools.islice(iterable, n), consumed: a negative n raises ValueError
take(n, iterable) ==
    IF n < 0 THEN [err |-> "ValueError", val |-> <<>>]
    ELSE [err |-> "none",
          val |-> SubSeq(iterable, 1, IF n < Len(iterable) THEN n ELSE Len(iterable))]

(***************************************************************************)
(* What nvidia-smi can print.                                              *)
(***************************************************************************)
\* fields joined by ", ", as --format=csv prints them
RECURSIVE Join(_)
Join(fields) ==
    IF Len(fields) = 0 THEN <<>>
    ELSE IF Len(fields) = 1 THEN fields[1]
    ELSE fields[1] \o <<",", " ">> \o Join(Tail(fields))

NA == <<"N", "/", "A">>

\* index, uuid, utilization.gpu, memory.total, memory.used, memory.free and
\* the six fields that follow them
GpuFields(id, uuid, util, total, used, free) ==
    <<id, uuid, util, total, used, free,
      <<"4">>, <<"T">>, <<"x">>, <<"x">>, <<"x">>, <<"6", "0">>>>

F0   == GpuFields(<<"0">>, <<"A">>, <<"0">>, <<"8">>, <<"0">>, <<"8">>)
F2   == GpuFields(<<"2">>, <<"C">>, <<"0">>, <<"8">>, <<"0">>, <<"8">>)
F10  == GpuFields(<<"1", "0">>, <<"B">>, <<"9", "0">>, <<"8">>, <<"6">>, <<"2">>)
FNA  == GpuFields(<<"1">>, <<"B">>, NA, <<"8">>, <<"0">>, <<"8">>)
FZ   == GpuFields(<<"3">>, <<"A">>, <<"5">>, <<"0">>, <<"0">>, <<"0">>)
FS   == SubSeq(F0, 1, 11)
FL   == GpuFields(<<"4">>, <<"C">>, <<"5">>, <<"8">>, <<"2">>, <<"6">>) \o <<<<"x">>>>

\* the GPU lines a snapshot is made of
SnapshotFields == {F0, F2, F10, FNA, FZ}

\* more GPU lines, for get_gpu alone
GpuLineFields ==
    SnapshotFields \cup
    { FS, FL,
      GpuFields(<<"5">>, <<"A">>, <<"5">>, NA, <<"2">>, <<"6">>),
      GpuFields(<<"5">>, <<"A">>, <<"5">>, <<"8">>, NA, <<"6">>),
      GpuFields(<<"5">>, <<"A">>, <<"5">>, <<"8">>, <<"2">>, NA),
      GpuFields(<<"5">>, <<"A">>, NA, <<"0">>, <<"0">>, <<"0">>),
      GpuFields(<<"5">>, <<"A">>, <<"5">>, <<"0">>, NA, <<"0">>),
      GpuFields(<<"5">>, <<"A">>, <<"5">>, <<"3">>, <<"1">>, <<"2">>),
      GpuFields(<<"5">>, <<"A">>, <<"2", ".", "5">>, <<"8">>, <<"0", ".", "5">>, <<"7", ".", "5">>),
      GpuFields(<<"5">>, <<"A">>, <<"5">>, <<"-", "8">>, <<"2">>, <<"6">>),
      GpuFields(<<"5">>, <<"A">>, <<" ", "5">>, <<"0", ".", "0">>, <<"2">>, <<"6">>),
      <<>>,
      <<<<"0">>>> }

\* pid, process_name, gpu_uuid, gpu_name, used_memory
ProcLineFields ==
    { <<<<"1", "2">>, <<"p">>, <<"A">>, <<"T">>, <<"5">>>>,
      <<<<"7">>, <<"p">>, <<"C">>, <<"T">>, NA>>,
      <<<<"x">>, <<"p">>, <<"A">>, <<"T">>, <<"5">>>>,
      <<<<"7">>, <<"p">>, <<"B">>, <<"T">>>>,
      <<<<"7">>, <<"p">>, <<"B">>, <<"T">>, <<"5">>, <<"x">>>> }

\* sequences of at most n elements of S
SeqsUpTo(S, n) == UNION {[1..k -> S] : k \in 0..n}

\* output.decode("utf-8").split(os.linesep): the text ends with a line
\* separator, so an empty string follows the last line
Output(fieldsSeq) ==
    [ok |-> TRUE,
     lines |-> [i \in 1..Len(fieldsSeq) |-> Join(fieldsSeq[i])] \o <<<<>>>>]

Failed == [ok |-> FALSE, lines |-> <<>>]

\* what subprocess.check_output gives for NVIDIA_SMI_GET_GPUS
GpuOutputs == {Failed} \cup {Output(fs) : fs \in SeqsUpTo(SnapshotFields, MaxGpus)}

\* what subprocess.check_output gives for NVIDIA_SMI_GET_PROCS
ProcOutputs == {Failed} \cup {Output(fs) : fs \in SeqsUpTo(ProcLineFields, MaxProcs)}

\* the uuid-to-id maps tried with get_gpu_proc
Maps ==
    { DictOf(<<>>),
      DictOf(<<[uuid |-> <<"A">>, id |-> <<"0">>]>>),
      DictOf(<<[uuid |-> <<"C">>, id |-> <<"2">>]>>),
      DictOf(<<[uuid |-> <<"A">>, id |-> <<"0">>], [uuid |-> <<"B">>, id |-> <<"1", "0">>]>>) }

(***************************************************************************)
(* The arguments tried.                                                    *)
(***************************************************************************)
OptFloats(S) == {None(IntF(0))} \cup {Some(IntF(x)) : x \in S}
OptLists(S) == {None(<<>>)} \cup {Some(l) : l \in S}

\* the keyword arguments of get_available_gpus, and the same options of ls
FilterArgs ==
    [gpu_util_max : OptFloats({50}), mem_util_max : OptFloats({50}),
     mem_free_min : OptFloats({4}),
     exclude_ids : OptLists({<<<<"0">>>>}),
     exclude_uuids : OptLists({<<<<"C">>>>})]

NoFilterArgs ==
    [gpu_util_max |-> None(IntF(0)), mem_util_max |-> None(IntF(0)),
     mem_free_min |-> None(IntF(0)), exclude_ids |-> None(<<>>),
     exclude_uuids |-> None(<<>>)]

SortKeys == {"id", "gpu_util", "mem_util"}

Limits == 0..MaxLimit

\* the defaults argparse gives the options of ls
CliGpuUtilMax == 100
CliMemUtilMax == 100
CliMemFreeMin == 0

\* args of ls, as parse_args returns them: the thresholds always hold a value
parse_args_ls(opts) ==
    [gpu_util_max |-> Some(ArgOr(opts.gpu_util_max, IntF(CliGpuUtilMax))),
     mem_util_max |-> Some(ArgOr(opts.mem_util_max, IntF(CliMemUtilMax))),
     mem_free_min |-> Some(ArgOr(opts.mem_free_min, IntF(CliMemFreeMin))),
     exclude_ids |-> opts.exclude_ids,
     exclude_uuids |-> opts.exclude_uuids]

\* --ids and --uuids of ps
PsArgs == [ids : OptLists({<<<<"0">>>>}), uuids : OptLists({<<<<"A">>>>})]

NoPsArgs == [ids |-> None(<<>>), uuids |-> None(<<>>)]

(***************************************************************************)
(* The state: one call of the library or one run of main() at a time.      *)
(***************************************************************************)
VARIABLES
    pc,                 \* "idle", "ps_map", "ps_parse", "done" or "raised"
    entry,              \* the function called: "none", "get_gpu", "get_gpu_proc",
                        \* "get_available_gpus", "ls" or "ps"
    args,               \* the arguments of the call
    calls,              \* the nvidia-smi commands run so far by the call
    proc_out,           \* what the process query of get_gpu_processes gave
    snapshot,           \* what the GPU query of _populate_gpu_uuid_to_id_map gave
    gpu,                \* the record get_gpu returned
    proc,               \* the record get_gpu_proc returned
    gpus,               \* gpus of get_available_gpus
    available,          \* what get_available_gpus returned, as a list
    sorted_gpus,        \* gpus of main after gpus.sort
    printed_gpus,       \* the records main printed in ls mode
    gpu_uuid_to_id_map, \* gpu_uuid_to_id_map of get_gpu_processes
    processes,          \* what get_gpu_processes returned
    printed_procs,      \* the records main printed in ps mode
    error               \* the exception the call raised, or "none"

vars ==
    <<pc, entry, args, calls, proc_out, snapshot, gpu, proc, gpus, available,
      sorted_gpus, printed_gpus, gpu_uuid_to_id_map, processes, printed_procs,
      error>>

NoArgs ==
    [fields |-> <<>>, line |-> <<>>, map |-> DictOf(<<>>), kw |-> NoFilterArgs,
     sort |-> "id", limit |-> 0, ps |-> NoPsArgs]

Init ==
    /\ pc = "idle"
    /\ entry = "none"
    /\ args = NoArgs
    /\ calls = <<>>
    /\ proc_out = Failed
    /\ snapshot = Failed
    /\ gpu = NoGPU
    /\ proc = NoProc
    /\ gpus = <<>>
    /\ available = <<>>
    /\ sorted_gpus = <<>>
    /\ printed_gpus = <<>>
    /\ gpu_uuid_to_id_map = DictOf(<<>>)
    /\ processes = <<>>
    /\ printed_procs = <<>>
    /\ error = "none"

Outcome(err) == IF err = "none" THEN "done" ELSE "raised"

\* get_gpu(line), called on its own
GetGpu ==
    /\ pc = "idle"
    /\ \E f \in GpuLineFields :
        \E r \in {get_gpu(Join(f))} :
            /\ entry' = "get_gpu"
            /\ args' = [args EXCEPT !.fields = f, !.line = Join(f)]
            /\ gpu' = r.val
            /\ error' = r.err
            /\ pc' = Outcome(r.err)
    /\ UNCHANGED <<calls, proc_out, snapshot, proc, gpus, available, sorted_gpus,
                   printed_gpus, gpu_uuid_to_id_map, processes, printed_procs>>

\* get_gpu_proc(line, gpu_uuid_to_id_map), called on its own
GetGpuProc ==
    /\ pc = "idle"
    /\ \E f \in ProcLineFields, m \in Maps :
        \E r \in {get_gpu_proc(Join(f), m)} :
            /\ entry' = "get_gpu_proc"
            /\ args' = [args EXCEPT !.fields = f, !.line = Join(f), !.map = m]
            /\ proc' = r.val
            /\ error' = r.err
            /\ pc' = Outcome(r.err)
    /\ UNCHANGED <<calls, proc_out, snapshot, gpu, gpus, available, sorted_gpus,
                   printed_gpus, gpu_uuid_to_id_map, processes, printed_procs>>

\* list(get_available_gpus(**kw)), called on its own
GetAvailableGpus ==
    /\ pc = "idle"
    /\ \E kw \in FilterArgs, out \in GpuOutputs :
        \E r \in {get_available_gpus(kw, out)} :
            /\ entry' = "get_available_gpus"
            /\ args' = [args EXCEPT !.kw = kw]
            /\ calls' = <<"gpus">>
            /\ gpus' = r.gpus
            /\ available' = r.val
            /\ error' = r.err
            /\ pc' = Outcome(r.err)
    /\ UNCHANGED <<proc_out, snapshot, gpu, proc, sorted_gpus, printed_gpus,
                   gpu_uuid_to_id_map, processes, printed_procs>>

\* main() in ls mode: filter, then sort, then take and print
MainLs ==
    /\ pc = "idle"
    /\ \E opts \in FilterArgs, s \in SortKeys, n \in Limits, out \in GpuOutputs :
        \E kw \in {parse_args_ls(opts)} :
        \E r \in {get_available_gpus(kw, out)} :
        \E st \in {SortBy(s, r.val)} :
        \E t \in {take(n, st)} :
            /\ entry' = "ls"
            /\ args' = [args EXCEPT !.kw = kw, !.sort = s, !.limit = n]
            /\ calls' = <<"gpus">>
            /\ gpus' = r.gpus
            /\ available' = r.val
            /\ sorted_gpus' = IF r.err = "none" THEN st ELSE <<>>
            /\ printed_gpus' = IF r.err = "none" THEN t.val ELSE <<>>
            /\ error' = IF r.err # "none" THEN r.err ELSE t.err
            /\ pc' = Outcome(IF r.err # "none" THEN r.err ELSE t.err)
    /\ UNCHANGED <<proc_out, snapshot, gpu, proc, gpu_uuid_to_id_map, processes,
                   printed_procs>>

\* get_gpu_processes(), first statement: the process query
PsGetProcs ==
    /\ pc = "idle"
    /\ \E a \in PsArgs, out \in ProcOutputs :
        /\ entry' = "ps"
        /\ args' = [args EXCEPT !.ps = a]
        /\ calls' = <<"procs">>
        /\ proc_out' = out
        /\ error' = IF out.ok THEN "none" ELSE "CalledProcessError"
        /\ pc' = IF out.ok THEN "ps_map" ELSE "raised"
    /\ UNCHANGED <<snapshot, gpu, proc, gpus, available, sorted_gpus,
                   printed_gpus, gpu_uuid_to_id_map, processes, printed_procs>>

\* get_gpu_processes(), second statement: the GPU query for the map
PsPopulateMap ==
    /\ pc = "ps_map"
    /\ \E out \in GpuOutputs :
        \E r \in {_populate_gpu_uuid_to_id_map(out)} :
            /\ calls' = Append(calls, "gpus")
            /\ snapshot' = out
            /\ gpu_uuid_to_id_map' = r.val
            /\ error' = r.err
            /\ pc' = IF r.err = "none" THEN "ps_parse" ELSE "raised"
    /\ UNCHANGED <<entry, args, proc_out, gpu, proc, gpus, available,
                   sorted_gpus, printed_gpus, processes, printed_procs>>

\* the processes main prints: those of --ids if given, else those of
\* --uuids if given, else all
PsShown(ps, procs) ==
    IF ps.ids.some /\ ps.ids.v # <<>>
    THEN SelectSeq(procs, LAMBDA p : p.gpu_id.tag = "str" /\ In(p.gpu_id.s, ps.ids.v))
    ELSE IF ps.uuids.some /\ ps.uuids.v # <<>>
    THEN SelectSeq(procs, LAMBDA p : In(p.gpu_uuid, ps.uuids.v))
    ELSE procs

\* get_gpu_processes(), third statement, and the printing of main
PsParse ==
    /\ pc = "ps_parse"
    /\ \E r \in {ParseProcs(proc_out.lines, gpu_uuid_to_id_map)} :
           /\ processes' = r.val
           /\ printed_procs' = PsShown(args.ps, r.val)
           /\ error' = r.err
           /\ pc' = Outcome(r.err)
    /\ UNCHANGED <<entry, args, calls, proc_out, snapshot, gpu, proc, gpus,
                   available, sorted_gpus, printed_gpus, gpu_uuid_to_id_map>>

\* the call is over; nothing of it is kept
Return ==
    /\ pc \in {"done", "raised"}
    /\ pc' = "idle"
    /\ entry' = "none"
    /\ args' = NoArgs
    /\ calls' = <<>>
    /\ proc_out' = Failed
    /\ snapshot' = Failed
    /\ gpu' = NoGPU
    /\ proc' = NoProc
    /\ gpus' = <<>>
    /\ available' = <<>>
    /\ sorted_gpus' = <<>>
    /\ printed_gpus' = <<>>
    /\ gpu_uuid_to_id_map' = DictOf(<<>>)
    /\ processes' = <<>>
    /\ printed_procs' = <<>>
    /\ error' = "none"

Next ==
    \/ GetGpu
    \/ GetGpuProc
    \/ GetAvailableGpus
    \/ MainLs
    \/ PsGetProcs
    \/ PsPopulateMap
    \/ PsParse
    \/ Return

Spec == Init /\ [][Next]_vars

(***************************************************************************)
(* The properties.                                                         *)
(***************************************************************************)
Filtered == entry \in {"get_available_gpus", "ls"} /\ pc = "done"

ListOf(opt) == IF opt.some THEN opt.v ELSE <<>>

C1_Given ==
    /\ args.kw.gpu_util_max.some
    /\ args.kw.mem_util_max.some
    /\ args.kw.mem_free_min.some

C1_Keeps(g) ==
    /\ FLe(g.gpu_util, args.kw.gpu_util_max.v)
    /\ FLe(g.mem_util, args.kw.mem_util_max.v)
    /\ FGe(g.mem_free, args.kw.mem_free_min.v)
    /\ ~In(g.id, ListOf(args.kw.exclude_ids))
    /\ ~In(g.uuid, ListOf(args.kw.exclude_uuids))

\* C1: with the three thresholds given, get_available_gpus returns exactly the
\* records of the snapshot that meet all five conditions, each once and in
\* the order of the snapshot.
C1_FilterExact ==
    (Filtered /\ C1_Given) => available = SelectSeq(gpus, C1_Keeps)

C1_Witness ==
    /\ entry = "get_available_gpus" /\ pc = "done" /\ C1_Given
    /\ args.kw.exclude_uuids.some
    /\ Len(gpus) = 2 /\ Len(available) = 1

\* the record field a numeric field of the line is parsed into
NumericField(g, k) ==
    CASE k = 3 -> g.gpu_util [] k = 4 -> g.mem_total
      [] k = 5 -> g.mem_used [] k = 6 -> g.mem_free

\* C2: a 12-field GPU line with N/A in its compute-util or in a memory field
\* is parsed without error into a record with NaN in that field, and no
\* record whose gpu_util or mem_util is NaN is returned by get_available_gpus.
C2_NaNParsedAndExcluded ==
    /\ (/\ entry = "get_gpu" /\ Len(args.fields) = 12
        /\ \E k \in 3..6 : args.fields[k] = NA)
       => /\ error = "none"
          /\ \A k \in 3..6 : args.fields[k] = NA => NumericField(gpu, k).nan
    /\ Filtered
       => \A i \in 1..Len(available) :
             ~available[i].gpu_util.nan /\ ~available[i].mem_util.nan

\* C3: get_gpu on a line of 12 fields or more always produces a record; its
\* mem_util is mem_used / mem_total * 100 when mem_total is a number other
\* than 0, and NaN when mem_total is 0 or is not a number.
C3_MemUtilRecomputed ==
    (entry = "get_gpu" /\ Len(args.fields) >= 12)
    => LET total == to_float_or_inf(args.fields[4])
           used  == to_float_or_inf(args.fields[5])
       IN  /\ error = "none"
           /\ (~total.nan /\ total.n # 0 /\ ~used.nan)
              => /\ ~gpu.mem_util.nan
                 /\ gpu.mem_util.n * total.n * used.d
                        = 100 * used.n * total.d * gpu.mem_util.d
           /\ (total.nan \/ total.n = 0 \/ used.nan) => gpu.mem_util.nan

\* C4: a GPU line that does not split into exactly 12 fields, and a process
\* line that does not split into exactly 5 fields, raise; no record is made.
C4_WrongArityRaises ==
    /\ (entry = "get_gpu" /\ Len(args.fields) # 12) => pc = "raised"
    /\ (entry = "get_gpu_proc" /\ Len(args.fields) # 5) => pc = "raised"

C5_NoOptions ==
    /\ ~args.kw.gpu_util_max.some
    /\ ~args.kw.mem_util_max.some
    /\ ~args.kw.mem_free_min.some
    /\ ~args.kw.exclude_ids.some
    /\ ~args.kw.exclude_uuids.some

C5_InRange(g) ==
    /\ FLe(IntF(0), g.gpu_util) /\ FLe(g.gpu_util, IntF(100))
    /\ FLe(IntF(0), g.mem_util) /\ FLe(g.mem_util, IntF(100))
    /\ FGe(g.mem_free, IntF(0))

\* C5: get_available_gpus called with no options returns every record whose
\* gpu_util and mem_util are numbers in 0..100 and whose mem_free is a
\* number >= 0.
C5_DefaultsAdmitAll ==
    (entry = "get_available_gpus" /\ pc = "done" /\ C5_NoOptions)
    => \A i \in 1..Len(gpus) : C5_InRange(gpus[i]) => In(gpus[i], available)

\* the gpu_id the lookup of uuid in map gives
Looked(map, uuid) == IF uuid \in DOMAIN map THEN IdStr(map[uuid]) ELSE IdInt(-1)

\* a process line of 5 fields whose pid is a run of digits
C6_WellFormed ==
    /\ Len(args.fields) = 5
    /\ args.fields[1] # <<>>
    /\ \A i \in 1..Len(args.fields[1]) :
          args.fields[1][i] \in {"0", "1", "2", "3", "4", "5", "6", "7", "8", "9"}

\* C6: get_gpu_proc on a well-formed line never raises; gpu_id is the map's
\* index for the line's uuid when the uuid is a key of the map and -1 when
\* it is not; process name, uuid and GPU name are those of the line.  The
\* records of get_gpu_processes carry the gpu_id of the same lookup.
C6_GpuIdLookup ==
    /\ (entry = "get_gpu_proc" /\ C6_WellFormed)
       => /\ pc = "done"
          /\ proc.gpu_id = Looked(args.map, args.fields[3])
          /\ proc.process_name = args.fields[2]
          /\ proc.gpu_uuid = args.fields[3]
          /\ proc.gpu_name = args.fields[4]
          /\ proc.pid = DigitsToNat(args.fields[1])
    /\ (entry = "ps" /\ pc = "done")
       => \A i \in 1..Len(processes) :
             processes[i].gpu_id
                 = Looked(gpu_uuid_to_id_map, processes[i].gpu_uuid)

C6_Witness ==
    /\ entry = "get_gpu_proc" /\ pc = "done" /\ C6_WellFormed
    /\ DOMAIN args.map # {}
    /\ args.fields[3] \notin DOMAIN args.map
    /\ proc.gpu_id = IdInt(-1)

\* a before b by the sort key, the index taken as the ordinal it writes
C7_KeyLt(a, b) ==
    CASE args.sort = "id"       -> DigitsToNat(a.id) < DigitsToNat(b.id)
      [] args.sort = "gpu_util" -> FLt(a.gpu_util, b.gpu_util)
      [] args.sort = "mem_util" -> FLt(a.mem_util, b.mem_util)

\* C7: in ls mode the sorted list is the filtered list rearranged, ascending
\* by the key (the index by its ordinal), records of equal key in their
\* filtered order; sorting it again changes nothing.
C7_SortAscendingStable ==
    (entry = "ls" /\ pc = "done")
    => /\ Len(sorted_gpus) = Len(available)
       /\ \E p \in Permutations(1..Len(available)) :
             /\ \A i \in 1..Len(available) : sorted_gpus[i] = available[p[i]]
             /\ \A i, j \in 1..Len(available) :
                   i < j => \/ C7_KeyLt(sorted_gpus[i], sorted_gpus[j])
                            \/ /\ ~C7_KeyLt(sorted_gpus[j], sorted_gpus[i])
                               /\ p[i] < p[j]
       /\ SortBy(args.sort, sorted_gpus) = sorted_gpus

Min(a, b) == IF a < b THEN a ELSE b

\* C8: in ls mode with limit n >= 0 the records printed are the first
\* min(n, size) records of the filtered and sorted list, in that order.
C8_LimitPrefix ==
    (entry = "ls" /\ pc = "done" /\ args.limit >= 0)
    => /\ Len(printed_gpus) = Min(args.limit, Len(sorted_gpus))
       /\ \A i \in 1..Len(printed_gpus) : printed_gpus[i] = sorted_gpus[i]
       /\ args.limit = 0 => printed_gpus = <<>>
       /\ args.limit >= Len(sorted_gpus) => printed_gpus = sorted_gpus

C8_Witness ==
    /\ entry = "ls" /\ pc = "done"
    /\ args.limit = 1 /\ Len(sorted_gpus) = 2 /\ Len(printed_gpus) = 1

\* the thresholds in force: those given, else the defaults of the function
GpuUtilMaxOf(kw) == ArgOr(kw.gpu_util_max, LibGpuUtilMax)
MemUtilMaxOf(kw) == ArgOr(kw.mem_util_max, LibMemUtilMax)
MemFreeMinOf(kw) == ArgOr(kw.mem_free_min, LibMemFreeMin)

Plus(f, k) == Num(f.n + k * f.d, f.d)

Without(l, k) == SubSeq(l, 1, k - 1) \o SubSeq(l, k + 1, Len(l))

\* kw with one criterion relaxed and the others as they are
C9_Relaxed(kw) ==
    {[kw EXCEPT !.gpu_util_max = Some(Plus(GpuUtilMaxOf(kw), k))] : k \in {1, 50}}
    \cup {[kw EXCEPT !.mem_util_max = Some(Plus(MemUtilMaxOf(kw), k))] : k \in {1, 50}}
    \cup {[kw EXCEPT !.mem_free_min = Some(Plus(MemFreeMinOf(kw), -k))] : k \in {2, 4}}
    \cup {[kw EXCEPT !.exclude_ids = Some(Without(ListOf(kw.exclude_ids), k))] :
            k \in 1..Len(ListOf(kw.exclude_ids))}
    \cup {[kw EXCEPT !.exclude_uuids = Some(Without(ListOf(kw.exclude_uuids), k))] :
            k \in 1..Len(ListOf(kw.exclude_uuids))}

\* what get_available_gpus returns for kw on the snapshot of the state
C9_Result(kw) ==
    Selected([err |-> "none", val |-> gpus], GpuUtilMaxOf(kw), MemUtilMaxOf(kw),
             MemFreeMinOf(kw), OrTuple(kw.exclude_ids),
             OrTuple(kw.exclude_uuids)).val

\* C9: on the same snapshot, relaxing one criterion of get_available_gpus and
\* keeping the others loses no record of the result.
C9_Monotone ==
    Filtered
    => \A kw2 \in C9_Relaxed(args.kw) :
          \A i \in 1..Len(available) : In(available[i], C9_Result(kw2))

C9_Witness ==
    /\ Filtered /\ available # <<>>
    /\ \E kw2 \in C9_Relaxed(args.kw) : Len(C9_Result(kw2)) > Len(available)

\* the GPU query failed, or a line of what it gave does not parse
C10_SnapshotFailed ==
    \/ ~snapshot.ok
    \/ \E i \in 1..Len(snapshot.lines) :
          NonBlank(snapshot.lines[i]) /\ get_gpu(snapshot.lines[i]).err # "none"

\* C10: get_gpu_processes runs the process query first and the GPU query
\* second, each at most once; when the process query fails the GPU query is
\* not run; when the GPU query fails or its output does not parse, the call
\* raises and returns no process records.
C10_CallOrderAndReraise ==
    entry = "ps"
    => /\ calls \in {<<"procs">>, <<"procs", "gpus">>}
       /\ pc \in {"done", "ps_parse"} => calls = <<"procs", "gpus">>
       /\ ~proc_out.ok => calls = <<"procs">> /\ pc = "raised"
       /\ (calls = <<"procs", "gpus">> /\ C10_SnapshotFailed)
          => /\ pc = "raised" /\ error # "none"
             /\ processes = <<>> /\ printed_procs = <<>>

C10_Witness ==
    /\ entry = "ps" /\ calls = <<"procs", "gpus">>
    /\ snapshot.ok /\ C10_SnapshotFailed
    /\ pc = "raised"

=============================================================================
